---- MODULE Spec2Model ----
(***************************************************************************)
(* mmccopy: copy raw image data to or from a memory card.                  *)
(*                                                                         *)
(* Two revisions of the program are modelled side by side:                 *)
(*   "mmccopy_c"  src/mmccopy.c         (write only, copy loop in main)    *)
(*   "part_001"   src/unnamed/part_001  (latest: -r/-w/-v, copy())         *)
(* The variable rev selects the revision a behaviour belongs to.           *)
(*                                                                         *)
(* Strings are sequences of one-character strings, so that strstr/strcmp   *)
(* are computed character by character.  Bytes are numbers: byte i of the  *)
(* data source is SrcByte(i), byte i of the device is initially            *)
(* DevByte(i); the copy never looks at the data, so distinct values per    *)
(* position make every loss, duplication or reordering visible.            *)
(***************************************************************************)
EXTENDS Integers, Sequences, FiniteSets, TLC

\* ------------------------------------------------------------------ bounds
\* Capacity of the copy buffer in the model.  The program uses ONE_MiB
\* (part_001:43); the model scales it down so that totals below, equal to,
\* above and not a multiple of the buffer all occur.
COPY_BUFFER_SIZE == 2
\* Largest value of a -s argument.
MaxSize == 3
\* Largest value of a -o argument.
MaxOffset == 1
\* Largest length of the data source (regular file or stdin stream).
MaxSrc == 4
\* Size of the memory card in bytes.
DevSize == 4
\* Largest number of records of an ordinary mount table.
MaxMounts == 2

\* -------------------------------------------------------- program constants
ONE_KiB == 1024
ONE_MiB == 1024 * ONE_KiB
ONE_GiB == 1024 * ONE_MiB
\* NUM_ELEMENTS(todo), NUM_ELEMENTS(possible)
TodoCapacity == 64
PossibleCapacity == 64
EXIT_SUCCESS == 0
EXIT_FAILURE == 1

\* ------------------------------------------------------------------ strings
Str_dev == <<"/", "d", "e", "v", "/">>
Str_sd == Str_dev \o <<"s", "d">>
Str_mmcblk == Str_dev \o <<"m", "m", "c", "b", "l", "k">>
Dash == <<"-">>
ImgFile == <<"i", "m", "g">>
NoDevice == <<>>

Digits == <<"0", "1", "2", "3", "4", "5", "6", "7", "8", "9">>
Letters == <<"a", "b", "c", "d", "e", "f", "g", "h", "i", "j", "k", "l", "m",
             "n", "o", "p", "q", "r", "s", "t", "u", "v", "w", "x", "y", "z">>

DigitValue(c) == (CHOOSE i \in 1..10 : Digits[i] = c) - 1
IsDigit(c) == \E i \in 1..10 : Digits[i] = c

\* sprintf("%d", n) for 0 <= n < 100
Decimal(n) == IF n < 10 THEN <<Digits[n + 1]>>
              ELSE <<Digits[(n \div 10) + 1], Digits[(n % 10) + 1]>>

\* strstr(s, p) == s
IsPrefix(p, s) == Len(p) <= Len(s) /\ SubSeq(s, 1, Len(p)) = p

\* ------------------------------------------------------------- Size Parser
suffix_multipliers ==
  << [suffix |-> <<"b">>,           multiple |-> 512],
     [suffix |-> <<"k", "B">>,      multiple |-> 1000],
     [suffix |-> <<"K">>,           multiple |-> ONE_KiB],
     [suffix |-> <<"K", "i", "B">>, multiple |-> ONE_KiB],
     [suffix |-> <<"M", "B">>,      multiple |-> 1000 * 1000],
     [suffix |-> <<"M">>,           multiple |-> ONE_MiB],
     [suffix |-> <<"M", "i", "B">>, multiple |-> ONE_MiB],
     [suffix |-> <<"G", "B">>,      multiple |-> 1000 * 1000 * 1000],
     [suffix |-> <<"G">>,           multiple |-> ONE_GiB],
     [suffix |-> <<"G", "i", "B">>, multiple |-> ONE_GiB] >>

\* Number of leading decimal digits of s.
RECURSIVE DigitRun(_)
DigitRun(s) ==
  IF s = <<>> \/ ~IsDigit(Head(s)) THEN 0 ELSE 1 + DigitRun(Tail(s))

\* Number of leading blanks of s, which strtoul skips.
RECURSIVE BlankRun(_)
BlankRun(s) ==
  IF s = <<>> \/ Head(s) # " " THEN 0 ELSE 1 + BlankRun(Tail(s))

\* strtoul(s, &end, 10): blanks, an optional '+', then the digits.  end is
\* the number of characters consumed, 0 when there is no digit (end == s).
\* A '-' sign and values beyond the integers of the model are left out of
\* the arguments.
strtoul(s) ==
  LET b    == BlankRun(s)
      t    == SubSeq(s, b + 1, Len(s))
      sign == IF t # <<>> /\ Head(t) = "+" THEN 1 ELSE 0
      u    == SubSeq(t, sign + 1, Len(t))
      n    == DigitRun(u)
  IN  IF n = 0 THEN [end |-> 0, digits |-> <<>>]
      ELSE [end |-> b + sign + n, digits |-> SubSeq(u, 1, n)]

\* Value of a run of decimal digits (strtoul, base 10).
RECURSIVE DigitsValue(_, _)
DigitsValue(ds, acc) ==
  IF ds = <<>> THEN acc
  ELSE DigitsValue(Tail(ds), acc * 10 + DigitValue(Head(ds)))

ParseError == [ok |-> FALSE, value |-> 0]
ParseOk(v) == [ok |-> TRUE, value |-> v]

\* A parser that takes the number and ignores whatever follows it.
parse_size_ignores_suffix(s) ==
  LET r == strtoul(s)
  IN  IF r.end = 0 THEN ParseError ELSE ParseOk(DigitsValue(r.digits, 0))

\* parse_size: ok = FALSE stands for errx(EXIT_FAILURE, ...).
parse_size(s) ==
  LET r      == strtoul(s)
      n      == r.end
      value  == DigitsValue(r.digits, 0)
      suffix == SubSeq(s, n + 1, Len(s))
      hits   == {i \in 1..Len(suffix_multipliers) :
                   suffix_multipliers[i].suffix = suffix}
  IN  IF n = 0 THEN ParseError
      ELSE IF suffix = <<>> THEN ParseOk(value)
      ELSE IF hits # {}
        THEN ParseOk(value * suffix_multipliers[CHOOSE i \in hits :
                       \A j \in hits : i <= j].multiple)
      ELSE ParseError


\* ------------------------------------------------------------ device names
DevSd(c) == Str_sd \o <<c>>
DevMmcblk(i) == Str_mmcblk \o Decimal(i)
sda == DevSd("a")
sdc == DevSd("c")
sdz == DevSd("z")
mmcblk1 == DevMmcblk(1)

\* Device sizes reach 32 GiB: a length is <<GiB, bytes below one GiB>>.
Big(hi, lo) == <<hi, lo>>
BigZero == Big(0, 0)
BigGT(a, b) == a[1] > b[1] \/ (a[1] = b[1] /\ a[2] > b[2])

\* A block device path as the prober meets it: open(devpath, O_RDONLY)
\* succeeds or not, lseek(fd, 0, SEEK_END) succeeds or not, and the offset
\* of its end.
Device(o, s, l) == [opens |-> o, seeks |-> s, len |-> l]

\* len > (32 * ONE_GiB) in is_mmc_device
CardCeiling == Big(32, 0)
\* len > 17179869184LL in is_mmc_device of src/mmccopy.c
CardCeiling_old == Big(16, 0)

\* device_size of part_001 on a device: 0 when the path cannot be opened
\* or its end cannot be found.
device_size_of(d) ==
  IF ~d.opens THEN BigZero
  ELSE IF ~d.seeks THEN BigZero
  ELSE d.len

\* is_mmc_device of part_001, on the result of device_size.
is_mmc_device(len) ==
  IF len = BigZero THEN FALSE
  ELSE IF BigGT(len, CardCeiling) THEN FALSE
  ELSE TRUE

\* is_mmc_device of src/mmccopy.c, which opens and seeks by itself.
is_mmc_device_old(d) ==
  IF ~d.opens THEN FALSE
  ELSE IF ~d.seeks THEN FALSE
  ELSE IF BigGT(d.len, CardCeiling_old) THEN FALSE
  ELSE TRUE

\* The candidates of find_mmc_device in probe order: for (c = 'b'; c != 'z';
\* c++) "/dev/sd%c", then for (i = 0; i < 16; i++) "/dev/mmcblk%d".
\* A first loop that runs up to 'z' included.
SdCandidates_to_z == [i \in 1..25 |-> DevSd(Letters[i + 1])]

SdCandidates == [i \in 1..24 |-> DevSd(Letters[i + 1])]
MmcblkCandidates == [i \in 1..16 |-> DevMmcblk(i - 1)]
Candidates == SdCandidates \o MmcblkCandidates

\* possible[] after both loops, prober(path) being is_mmc_device(path).
\* probed lists the paths handed to is_mmc_device, in order.
RECURSIVE ScanCandidates(_, _, _)
ScanCandidates(cands, prober(_), acc) ==
  IF cands = <<>> THEN acc
  ELSE ScanCandidates(Tail(cands), prober,
         [probed   |-> Append(acc.probed, Head(cands)),
          possible |->
            IF prober(Head(cands))
                 /\ Len(acc.possible) < PossibleCapacity
              THEN Append(acc.possible, Head(cands)) ELSE acc.possible])

\* A finder that settles for the first candidate when several pass.
FindResult_first(poss) ==
  IF Len(poss) = 0 THEN "none" ELSE "one"

\* What find_mmc_device does with possible[]: "none" returns 0, "one"
\* returns possible[0], "exit" lists the candidates and exits.
FindResult(poss) ==
  IF Len(poss) = 0 THEN "none"
  ELSE IF Len(poss) = 1 THEN "one"
  ELSE "exit"

\* The block devices of the modelled machines.  A device is absent (open
\* fails), a card of DevSize bytes, or, for /dev/mmcblk1: a device whose end
\* cannot be found, an empty device, a card at or just above one of the
\* two ceilings, a disk above both.  /dev/sda and /dev/sdz are both absent
\* or both cards.
EnvDevices == {sda, sdc, sdz, mmcblk1}
Absent == Device(FALSE, FALSE, BigZero)
Unsized == Device(TRUE, FALSE, BigZero)
Empty == Device(TRUE, TRUE, BigZero)
Card == Device(TRUE, TRUE, Big(0, DevSize))
Card16 == Device(TRUE, TRUE, Big(16, 0))
Card16Plus == Device(TRUE, TRUE, Big(16, 1))
Card32 == Device(TRUE, TRUE, Big(32, 0))
Disk == Device(TRUE, TRUE, Big(32, 1))
DeviceKinds ==
  {Absent, Unsized, Empty, Card, Card16, Card16Plus, Card32, Disk}
DeviceSizes ==
  {f \in [EnvDevices -> DeviceKinds] :
     /\ f[sdc] \in {Absent, Card}
     /\ f[sda] = f[sdz]
     /\ \/ f[sda] = Absent
        \/ f[sda] = Card /\ f[mmcblk1] \in {Absent, Card}}
OnlySdc == [d \in EnvDevices |-> IF d = sdc THEN Card ELSE Absent]
OnlyMmcblk1 == [d \in EnvDevices |-> IF d = mmcblk1 THEN Card ELSE Absent]

\* ---------------------------------------------------------- mount table
\* A record of /proc/mounts, as sscanf(line, "%s %s", devname, mountpoint)
\* reads it.
MountRec(d, m) == [devname |-> d, mountpoint |-> m]
Mnt(x) == <<"/", "m", "n", "t", "/">> \o x
MountRecords ==
  { MountRec(sdc \o <<"1">>, Mnt(<<"a">>)),
    MountRec(DevSd("d") \o <<"1">>, Mnt(<<"b">>)),
    MountRec(sdc, Mnt(<<"c">>)),
    MountRec(sdc \o <<"a", "1">>, Mnt(<<"d">>)) }
\* A machine with two cards in mmcblk slots 1 and 10, a partition of each
\* mounted.
MmcblkTable ==
  << MountRec(DevMmcblk(10) \o <<"p", "1">>, Mnt(<<"x">>)),
     MountRec(mmcblk1 \o <<"p", "1">>, Mnt(<<"y">>)) >>

\* The mount tables of the modelled machines: every table of at most
\* MaxMounts different records, and two long tables in which the card is
\* mounted TodoCapacity and TodoCapacity + 1 times.
RECURSIVE TablesOfLen(_)
TablesOfLen(n) ==
  IF n = 0 THEN {<<>>}
  ELSE {Append(t, r) : t \in TablesOfLen(n - 1), r \in MountRecords}
NoRepeat(t) == \A i, j \in 1..Len(t) : t[i] = t[j] => i = j
LongTable(n) == [i \in 1..n |-> MountRec(sdc \o <<"1">>, Mnt(Decimal(i)))]
MountTables ==
  {t \in UNION {TablesOfLen(n) : n \in 0..MaxMounts} : NoRepeat(t)}
    \cup {LongTable(TodoCapacity), LongTable(TodoCapacity + 1)}

\* A scan that compares the names with strcmp instead of strstr: only the
\* device itself matches, not its partitions.
RECURSIVE ScanMounts_exact(_, _, _)
ScanMounts_exact(table, device, acc) ==
  IF table = <<>> THEN [overflow |-> FALSE, todo |-> acc]
  ELSE IF device = Head(table).devname
    THEN IF Len(acc) = TodoCapacity
           THEN [overflow |-> TRUE, todo |-> acc]
           ELSE ScanMounts_exact(Tail(table), device,
                                 Append(acc, Head(table).mountpoint))
  ELSE ScanMounts_exact(Tail(table), device, acc)

\* The scan loop of umount_all_on_dev: todo[] after the records of table,
\* or overflow = TRUE when a matching record finds todo[] full (errx).
RECURSIVE ScanMounts(_, _, _)
ScanMounts(table, device, acc) ==
  IF table = <<>> THEN [overflow |-> FALSE, todo |-> acc]
  ELSE IF IsPrefix(device, Head(table).devname)
    THEN IF Len(acc) = TodoCapacity
           THEN [overflow |-> TRUE, todo |-> acc]
           ELSE ScanMounts(Tail(table), device,
                           Append(acc, Head(table).mountpoint))
  ELSE ScanMounts(Tail(table), device, acc)

\* ---------------------------------------------------------------- progress
calculate_progress(written, total) ==
  IF total > 0 THEN (100 * written) \div total ELSE 0

\* pretty_size: the unit chosen and the number printed before it (for GiB
\* and MiB in hundredths, "%.2f").
pretty_size(amount) ==
  IF amount >= ONE_GiB
    THEN [unit |-> "GiB", n |-> (amount \div (ONE_GiB \div 100))]
  ELSE IF amount >= ONE_MiB
    THEN [unit |-> "MiB", n |-> (amount * 100) \div ONE_MiB]
  ELSE IF amount >= ONE_KiB
    THEN [unit |-> "KiB", n |-> amount \div ONE_KiB]
  ELSE [unit |-> "bytes", n |-> amount]

\* What one progress report prints on stdout.  The items carry the
\* arguments of the call next to the text printed.
NumericLine(written, total) ==
  [k |-> "numeric", text |-> calculate_progress(written, total),
   written |-> written, total |-> total]
PercentLine(written, total) ==
  [k |-> "percent", text |-> calculate_progress(written, total),
   written |-> written, total |-> total]
SizeLine(written, total) ==
  [k |-> "size", text |-> pretty_size(written),
   written |-> written, total |-> total]
Newline == [k |-> "newline"]
DataByte(b) == [k |-> "data", byte |-> b]

\* report_progress(written, total, numeric) of src/mmccopy.c
report_progress_3(written, total, numeric) ==
  IF numeric THEN <<NumericLine(written, total)>>
  ELSE IF total > 0 THEN <<PercentLine(written, total)>>
  ELSE <<SizeLine(written, total)>>

\* report_progress(written, total) of part_001, q and numeric being the
\* globals quiet and numeric_progress
report_progress(written, total, q, numeric) ==
  IF q THEN <<>>
  ELSE report_progress_3(written, total, numeric)

\* The linefeed after the loop.  part_001: if (!quiet && !numeric_progress)
\* printf("\n");  src/mmccopy.c: printf("\n");
final_newline(q, numeric) ==
  IF ~q /\ ~numeric THEN <<Newline>> ELSE <<>>
final_newline_old(q, numeric) == <<Newline>>

\* -------------------------------------------------------------------- data
SrcByte(i) == i + 1
DevByte(i) == 100 + i
InitialDevice == [i \in 1..DevSize |-> DevByte(i - 1)]

\* ----------------------------------------------------------------- machine
\* The machine the program runs on: the sizes of its block devices, its
\* mount table, and the length of the data source (the image file, or the
\* stream on stdin).  The machines modelled vary one of the three at a time.
Machine(sizes, table, len) ==
  [sizes |-> sizes, mounts |-> table, src_len |-> len]
Machines ==
  {Machine(OnlySdc, <<>>, n) : n \in 0..MaxSrc}
    \cup {Machine(OnlySdc, t, 0) : t \in MountTables}
    \cup {Machine(f, <<>>, 1) : f \in DeviceSizes}
    \cup {Machine(OnlyMmcblk1, MmcblkTable, 1)}

\* ------------------------------------------------------------------- state
VARIABLES
  str,                  \* the argument of parse_size under ParserSpec
  rev,                  \* revision of the program that runs
  machine,              \* the machine it runs on
  pc, status,           \* position in main; exit status once pc = "exited"
  mmc_device, data_pathname, total_to_copy, seek_offset,
  accept_found_device, read_from_mmc, numeric_progress, quiet,
  found,                \* mmc_device came from find_mmc_device
  probed, possible,     \* find_mmc_device: paths probed, possible[]
  response,             \* what fgetc(stdin) returned to the prompt
  stdin_used,           \* characters the prompt consumed from stdin
  data_fd,              \* "none", "file_r", "file_w", "stdin", "stdout"
  src_len, src_pos,     \* length of the data source, bytes read from it
  delivered,            \* bytes written to the destination, in order
  scanned, todo, umounts,\* /proc/mounts was read; todo[]; umount calls
  mmc_fd, mmc_pos, dev, \* open mode and file offset of the device; its bytes
  total_written, amount_read, ptr, buffer,
  out, errs             \* stdout items, stderr messages

optv == <<mmc_device, data_pathname, total_to_copy, seek_offset,
          accept_found_device, read_from_mmc, numeric_progress, quiet>>
findv == <<found, probed, possible, response, stdin_used>>
datav == <<data_fd, src_len, src_pos, delivered>>
mountv == <<scanned, todo, umounts>>
devv == <<mmc_fd, mmc_pos, dev>>
copyv == <<total_written, amount_read, ptr, buffer>>
vars == <<str, rev, machine, pc, status, optv, findv, datav, mountv, devv, copyv, out, errs>>

Revisions == {"mmccopy_c", "part_001"}
NoStatus == 0 - 1

\* The locals and globals of main as they are when the option loop starts.
Start ==
  /\ rev \in Revisions
  /\ pc = "getopt"
  /\ status = NoStatus
  /\ mmc_device = NoDevice
  /\ data_pathname = Dash
  /\ total_to_copy = 0
  /\ seek_offset = 0
  /\ accept_found_device = FALSE
  /\ read_from_mmc = FALSE
  /\ numeric_progress = FALSE
  /\ quiet = FALSE
  /\ found = FALSE
  /\ probed = <<>>
  /\ possible = <<>>
  /\ response = "none"
  /\ stdin_used = 0
  /\ data_fd = "none"
  /\ src_len = 0
  /\ src_pos = 0
  /\ delivered = <<>>
  /\ scanned = FALSE
  /\ todo = <<>>
  /\ umounts = <<>>
  /\ mmc_fd = "none"
  /\ mmc_pos = 0
  /\ dev = InitialDevice
  /\ total_written = 0
  /\ amount_read = 0
  /\ ptr = 0
  /\ buffer = <<>>
  /\ out = <<>>
  /\ errs = <<>>

Init ==
  /\ str = <<>>
  /\ machine \in Machines
  /\ Start

\* err()/errx()/exit(): the process ends with the status, after the message.
Msg(text) == [msg |-> text, list |-> <<>>]
Exit(code, text) ==
  /\ pc' = "exited"
  /\ status' = code
  /\ errs' = Append(errs, Msg(text))

\* ----------------------------------------------------------------- getopt
DeviceArgs == {sdc}
SizeArgs == {Decimal(n) : n \in 0..MaxSize} \cup {<<"1", "2", "x">>, <<"a", "b", "c">>}
OffsetArgs == {Decimal(n) : n \in 0..MaxOffset}
\* Option letters of the optstring: "d:s:o:npqy" and "d:s:o:npqrvwy".
OptLetters ==
  IF rev = "mmccopy_c" THEN {"d", "s", "o", "n", "p", "q", "y"}
  ELSE {"d", "s", "o", "n", "p", "q", "r", "v", "w", "y"}
\* Letters a command line may carry after '-'.
ArgLetters == {"d", "s", "o", "n", "p", "q", "r", "v", "w", "y", "x"}

\* case 'd'
GetoptD ==
  /\ pc = "getopt" /\ "d" \in OptLetters
  /\ \E optarg \in DeviceArgs : mmc_device' = optarg
  /\ UNCHANGED <<str, rev, machine, pc, status, data_pathname, total_to_copy, seek_offset,
                 accept_found_device, read_from_mmc, numeric_progress, quiet,
                 findv, datav, mountv, devv, copyv, out, errs>>

\* case 's'
GetoptS ==
  /\ pc = "getopt" /\ "s" \in OptLetters
  /\ \E optarg \in SizeArgs :
       LET r == parse_size(optarg)
       IN  IF r.ok
             THEN /\ total_to_copy' = r.value
                  /\ UNCHANGED <<pc, status, errs>>
             ELSE /\ Exit(EXIT_FAILURE, "parse_size")
                  /\ UNCHANGED total_to_copy
  /\ UNCHANGED <<str, rev, machine, mmc_device, data_pathname, seek_offset,
                 accept_found_device, read_from_mmc, numeric_progress, quiet,
                 findv, datav, mountv, devv, copyv, out>>

\* case 'o'
GetoptO ==
  /\ pc = "getopt" /\ "o" \in OptLetters
  /\ \E optarg \in OffsetArgs \cup {<<"1", "2", "x">>} :
       LET r == parse_size(optarg)
       IN  IF r.ok
             THEN /\ seek_offset' = r.value
                  /\ UNCHANGED <<pc, status, errs>>
             ELSE /\ Exit(EXIT_FAILURE, "parse_size")
                  /\ UNCHANGED seek_offset
  /\ UNCHANGED <<str, rev, machine, mmc_device, data_pathname, total_to_copy,
                 accept_found_device, read_from_mmc, numeric_progress, quiet,
                 findv, datav, mountv, devv, copyv, out>>

\* case 'n', 'p', 'q', 'r', 'w', 'y'
GetoptFlag ==
  /\ pc = "getopt"
  /\ \E opt \in OptLetters \cap {"n", "p", "q", "r", "w", "y"} :
       /\ numeric_progress' = IF opt = "n" THEN TRUE ELSE numeric_progress
       /\ quiet' = IF opt = "q" THEN TRUE ELSE quiet
       /\ read_from_mmc' = IF opt = "r" THEN TRUE
                           ELSE IF opt = "w" THEN FALSE ELSE read_from_mmc
       /\ accept_found_device' = IF opt = "y" THEN TRUE
                                 ELSE accept_found_device
  /\ UNCHANGED <<str, rev, machine, pc, status, mmc_device, data_pathname, total_to_copy,
                 seek_offset, findv, datav, mountv, devv, copyv, out, errs>>

\* case 'v': print_version(); exit(EXIT_SUCCESS);
GetoptV ==
  /\ pc = "getopt" /\ "v" \in OptLetters
  /\ Exit(EXIT_SUCCESS, "version")
  /\ UNCHANGED <<str, rev, machine, optv, findv, datav, mountv, devv, copyv, out>>

\* default: print_usage(optv[0]); exit(EXIT_FAILURE);
GetoptUnknown ==
  /\ pc = "getopt"
  /\ \E opt \in ArgLetters \ OptLetters : Exit(EXIT_FAILURE, "usage")
  /\ UNCHANGED <<str, rev, machine, optv, findv, datav, mountv, devv, copyv, out>>

\* No test of the two flags at all.
flags_conflict_unchecked(q, numeric) == FALSE

\* if (quiet && numeric_progress) errx(...)
flags_conflict(q, numeric) == q /\ numeric

\* No test of the size in read mode.
read_needs_size_unchecked(reading, total) == FALSE

\* if (read_from_mmc && total_to_copy == 0) errx(...)
read_needs_size(reading, total) == reading /\ total = 0

\* getopt returned -1: the checks after the option loop, and the positional
\* argument.  The read-size check exists in part_001 only.
ArgsDone ==
  /\ pc = "getopt"
  /\ \E path \in {Dash, ImgFile} :
       /\ data_pathname' = IF flags_conflict(quiet, numeric_progress)
                             THEN data_pathname ELSE path
       /\ IF flags_conflict(quiet, numeric_progress)
            THEN Exit(EXIT_FAILURE, "pick either -n or -q")
          ELSE IF rev = "part_001"
                    /\ read_needs_size(read_from_mmc, total_to_copy)
            THEN Exit(EXIT_FAILURE, "specify the amount to copy")
          ELSE /\ pc' = IF mmc_device = NoDevice THEN "find"
                        ELSE "open_data"
               /\ UNCHANGED <<status, errs>>
  /\ UNCHANGED <<str, rev, machine, mmc_device, total_to_copy, seek_offset,
                 accept_found_device, read_from_mmc, numeric_progress, quiet,
                 findv, datav, mountv, devv, copyv, out>>

\* ------------------------------------------------------------ Device Finder
\* The device behind a path of the machine.
DeviceAt(path) ==
  IF path \in EnvDevices THEN machine.sizes[path] ELSE Absent

\* device_size(devpath): 0 unless the path opens and its end is found.
device_size(path) == device_size_of(DeviceAt(path))

\* is_mmc_device(devpath) of the revision that runs.
Prober(path) ==
  IF rev = "mmccopy_c" THEN is_mmc_device_old(DeviceAt(path))
  ELSE is_mmc_device(device_size(path))

\* mmc_device = find_mmc_device() and the test of its result.
FindDevice ==
  /\ pc = "find"
  /\ LET scan == ScanCandidates(Candidates, Prober,
                                  [probed |-> <<>>, possible |-> <<>>])
         res == FindResult(scan.possible)
     IN    /\ probed' = scan.probed
           /\ possible' = scan.possible
           /\ IF res = "none"
                THEN /\ Exit(EXIT_FAILURE, "no memory cards found")
                     /\ UNCHANGED <<mmc_device, found>>
              ELSE IF res = "exit"
                THEN /\ pc' = "exited"
                     /\ status' = EXIT_FAILURE
                     /\ errs' = Append(errs,
                          [msg |-> "too many possible memory cards found",
                           list |-> scan.possible])
                     /\ UNCHANGED <<mmc_device, found>>
              ELSE /\ mmc_device' = scan.possible[1]
                   /\ found' = TRUE
                   /\ pc' = IF accept_found_device THEN "open_data"
                            ELSE "confirm"
                   /\ UNCHANGED <<status, errs>>
  /\ UNCHANGED <<str, rev, machine, data_pathname, total_to_copy, seek_offset,
                 accept_found_device, read_from_mmc, numeric_progress, quiet,
                 response, stdin_used, datav, mountv, devv, copyv, out>>

\* What fgetc(stdin) may return to the prompt.
Responses == {"y", "Y", "n", "EOF"}

\* A prompt that takes everything but 'n' for a yes (end of input included).
declined_only_n(c) == c = "n"

\* if (response != 'y' && response != 'Y') errx(EXIT_FAILURE, "aborted");
declined(c) == c # "y" /\ c # "Y"

\* A test of the data path that never takes it for stdin/stdout.
uses_stream_never(path) == FALSE

\* strcmp(data_pathname, "-") == 0
uses_stream(path) == path = Dash

\* if (!accept_found_device) { ... }: refuse stdin/stdout, else prompt and
\* read one character.
Confirm ==
  /\ pc = "confirm"
  /\ IF uses_stream(data_pathname)
       THEN /\ Exit(EXIT_FAILURE, "cannot confirm")
            /\ UNCHANGED <<response, stdin_used>>
       ELSE \E c \in Responses :
              /\ response' = c
              /\ stdin_used' = IF c = "EOF" THEN stdin_used
                               ELSE stdin_used + 1
              /\ IF declined(c)
                   THEN /\ pc' = "exited"
                        /\ status' = EXIT_FAILURE
                        /\ errs' = errs \o <<Msg("prompt"), Msg("aborted")>>
                   ELSE /\ pc' = "open_data"
                        /\ errs' = Append(errs, Msg("prompt"))
                        /\ UNCHANGED status
  /\ UNCHANGED <<str, rev, machine, optv, found, probed, possible, datav, mountv, devv,
                 copyv, out>>

\* --------------------------------------------------------------- data path
\* A total that is never set from the file size.
capped_total_as_given(total, st_size) == total

\* if (total_to_copy == 0 || st.st_size < total_to_copy)
\*     total_to_copy = st.st_size;
capped_total(total, st_size) ==
  IF total = 0 \/ st_size < total THEN st_size ELSE total

\* if (numeric_progress && total_to_copy == 0) errx(...)
numeric_needs_size(numeric, total) == numeric /\ total = 0

\* The end of OpenData: the numeric-progress check on the final total.
AfterOpenData(total) ==
  IF numeric_needs_size(numeric_progress, total)
    THEN Exit(EXIT_FAILURE, "specify input size")
    ELSE /\ pc' = "umount_scan"
         /\ UNCHANGED <<status, errs>>

\* A read to stdout that leaves quiet as the options set it.
forced_quiet_as_given(q) == q

\* Reading to stdout: quiet = true, whatever the options said.
forced_quiet(q) == TRUE

\* Opening the data path and fixing the total.  src/mmccopy.c has the write
\* branches only.
OpenData ==
  /\ pc = "open_data"
  /\ \/ \* open() or fstat() fails
        /\ data_pathname # Dash
        /\ Exit(EXIT_FAILURE, "data path")
        /\ UNCHANGED <<data_fd, src_len, delivered, total_to_copy, quiet>>
     \/ \* read mode, file: O_WRONLY | O_CREAT | O_TRUNC
        /\ data_pathname # Dash /\ read_from_mmc
        /\ data_fd' = "file_w"
        /\ AfterOpenData(total_to_copy)
        /\ UNCHANGED <<src_len, delivered, total_to_copy, quiet>>
     \/ \* write mode, file: O_RDONLY, total capped to the file size
        /\ data_pathname # Dash /\ ~read_from_mmc
        /\ LET st_size == machine.src_len
           IN  /\ src_len' = st_size
               /\ total_to_copy' = capped_total(total_to_copy, st_size)
               /\ AfterOpenData(capped_total(total_to_copy, st_size))
        /\ data_fd' = "file_r"
        /\ UNCHANGED <<delivered, quiet>>
     \/ \* read mode, stdout: quiet is forced
        /\ data_pathname = Dash /\ read_from_mmc
        /\ data_fd' = "stdout"
        /\ quiet' = forced_quiet(quiet)
        /\ AfterOpenData(total_to_copy)
        /\ UNCHANGED <<src_len, delivered, total_to_copy>>
     \/ \* write mode, stdin: the stream ends after src_len bytes
        /\ data_pathname = Dash /\ ~read_from_mmc
        /\ data_fd' = "stdin"
        /\ src_len' = machine.src_len
        /\ AfterOpenData(total_to_copy)
        /\ UNCHANGED <<delivered, total_to_copy, quiet>>
  /\ UNCHANGED <<str, rev, machine, mmc_device, data_pathname, seek_offset,
                 accept_found_device, read_from_mmc, numeric_progress,
                 findv, src_pos, mountv, devv, copyv, out>>

\* ---------------------------------------------------------- Mount Unmounter
\* umount_all_on_dev up to fclose(fp): the scan of the mount table.
UmountScan ==
  /\ pc = "umount_scan"
  /\ \/ \* fopen("/proc/mounts") fails
        /\ Exit(EXIT_FAILURE, "/proc/mounts")
        /\ UNCHANGED <<scanned, todo>>
     \/ LET r == ScanMounts(machine.mounts, mmc_device, <<>>)
          IN  /\ scanned' = TRUE
              /\ todo' = r.todo
              /\ IF r.overflow
                   THEN Exit(EXIT_FAILURE, "device mounted too many times")
                   ELSE /\ pc' = "umount"
                        /\ UNCHANGED <<status, errs>>
  /\ UNCHANGED <<str, rev, machine, optv, findv, datav, umounts, devv, copyv, out>>

\* A loop that goes on through todo[] after a failed call and reports the
\* failure at the end.
UmountCalls_keep_going(list, failed) == list

\* The loop over todo[]: umount(todo[i]) in order, fatal at the first call
\* that fails.  failed = 0 when every call succeeds, else the index of the
\* failing call.
UmountCalls(list, failed) ==
  IF failed = 0 THEN list ELSE SubSeq(list, 1, failed)

Umount ==
  /\ pc = "umount"
  /\ \E failed \in 0..Len(todo) :
       /\ umounts' = UmountCalls(todo, failed)
       /\ IF failed # 0
            THEN /\ pc' = "exited"
                 /\ status' = EXIT_FAILURE
                 /\ errs' = Append(errs, [msg |-> "umount",
                                          list |-> <<todo[failed]>>])
            ELSE /\ pc' = "open_dev"
                 /\ UNCHANGED <<status, errs>>
  /\ UNCHANGED <<str, rev, machine, optv, findv, datav, scanned, todo, devv, copyv, out>>

\* -------------------------------------------------------------- device open
\* A device always opened for writing.
open_flags_write_only(reading) == "O_WRONLY|O_SYNC"

\* read_from_mmc ? O_RDONLY : (O_WRONLY | O_SYNC)
open_flags(reading) == IF reading THEN "O_RDONLY" ELSE "O_WRONLY|O_SYNC"

\* open(mmc_device, ...) and lseek(mmc_fd, seek_offset, SEEK_SET)
OpenDevice ==
  /\ pc = "open_dev"
  /\ \/ \* open() fails
        /\ Exit(EXIT_FAILURE, "open device")
        /\ UNCHANGED <<mmc_fd, mmc_pos>>
     \/ /\ DeviceAt(mmc_device).opens
        /\ mmc_fd' = open_flags(read_from_mmc)
        /\ IF seek_offset > DevSize
             THEN /\ Exit(EXIT_FAILURE, "lseek")
                  /\ UNCHANGED mmc_pos
             ELSE /\ mmc_pos' = seek_offset
                  /\ pc' = "copy"
                  /\ UNCHANGED <<status, errs>>
  /\ UNCHANGED <<str, rev, machine, optv, findv, datav, mountv, dev, copyv, out>>

\* ------------------------------------------------------------- Copy Engine
\* A loop test without the case of the unknown total.
loop_continues_known_only(total, written) == written < total

\* while (total_to_copy == 0 || total_written < total_to_copy)
loop_continues(total, written) == total = 0 \/ written < total

\* amount_to_read = COPY_BUFFER_SIZE;
\* if (total_to_copy != 0 && total_to_copy < amount_to_read)
\*     amount_to_read = total_to_copy;
amount_to_read(total) ==
  IF total # 0 /\ total < COPY_BUFFER_SIZE THEN total ELSE COPY_BUFFER_SIZE

\* A report that always passes 0 as the bytes written.
Report_zero(written) ==
  report_progress(0, total_to_copy, quiet, numeric_progress)

\* The progress report of the copy: src/mmccopy.c guards the call with
\* if (!quiet), part_001 tests quiet inside report_progress.
Report(written) ==
  IF rev = "mmccopy_c"
    THEN IF ~quiet
           THEN report_progress_3(written, total_to_copy, numeric_progress)
           ELSE <<>>
    ELSE report_progress(written, total_to_copy, quiet, numeric_progress)

\* Every revision ending the copy as src/mmccopy.c does, with a last report.
AfterLoop_always_reports(written) ==
  Report(written) \o final_newline_old(quiet, numeric_progress)

\* What follows the loop on stdout.  src/mmccopy.c: a last report unless
\* quiet, then a linefeed.  part_001: the linefeed of copy().
AfterLoop(written) ==
  IF rev = "mmccopy_c"
    THEN Report(written) \o final_newline_old(quiet, numeric_progress)
    ELSE final_newline(quiet, numeric_progress)

\* Bytes the source holds beyond those already read.
Available ==
  IF read_from_mmc THEN DevSize - mmc_pos ELSE src_len - src_pos

\* The next n bytes of the source.
SourceBytes(n) ==
  IF read_from_mmc THEN SubSeq(dev, mmc_pos + 1, mmc_pos + n)
  ELSE [i \in 1..n |-> SrcByte(src_pos + i - 1)]

\* Room the destination has for the next write.
Room == IF read_from_mmc THEN COPY_BUFFER_SIZE ELSE DevSize - mmc_pos

\* A write that takes its bytes from the start of the buffer again after a
\* partial write (ptr not advanced).
written_bytes_from_start(buf, p, n) == SubSeq(buf, 1, n)

\* write(to_fd, ptr, amount_read) returning n: the bytes it takes, from ptr.
written_bytes(buf, p, n) == SubSeq(buf, p + 1, p + n)

\* The loop ends and main exits: close(), exit(EXIT_SUCCESS).
FinishCopy ==
  /\ out' = out \o AfterLoop(total_written)
  /\ pc' = "exited"
  /\ status' = EXIT_SUCCESS
  /\ UNCHANGED errs

\* report_progress(0, total_to_copy); buffer = malloc(); total_written = 0;
CopyStart ==
  /\ pc = "copy"
  /\ out' = out \o Report(0)
  /\ total_written' = 0
  /\ pc' = "copy_loop"
  /\ UNCHANGED <<str, rev, machine, status, optv, findv, datav, mountv, devv, amount_read,
                 ptr, buffer, errs>>

\* The loop test fails: the copy is over.
CopyLoopExit ==
  /\ pc = "copy_loop"
  /\ ~loop_continues(total_to_copy, total_written)
  /\ FinishCopy
  /\ UNCHANGED <<str, rev, machine, optv, findv, datav, mountv, devv, copyv>>

\* errno after a failed read or write: an interrupted system call, or an
\* input/output error standing for all others.
EINTR == <<"E", "I", "N", "T", "R">>
EIO == <<"E", "I", "O">>
Errnos == {EINTR, EIO}

\* One read(from_fd, buffer, amount_to_read) and the tests on its result.
CopyRead ==
  /\ pc = "copy_loop"
  /\ loop_continues(total_to_copy, total_written)
  /\ \/ \* amount_read < 0, whatever errno: err(EXIT_FAILURE, "read")
        /\ \E errno \in Errnos :
             /\ pc' = "exited"
             /\ status' = EXIT_FAILURE
             /\ errs' = Append(errs, [msg |-> "read", list |-> <<errno>>])
        /\ UNCHANGED <<src_pos, mmc_pos, amount_read, ptr, buffer, out>>
     \/ \* amount_read == 0: break
        /\ Available = 0
        /\ FinishCopy
        /\ UNCHANGED <<src_pos, mmc_pos, amount_read, ptr, buffer>>
     \/ \E n \in 1..amount_to_read(total_to_copy) :
          /\ n <= Available
          /\ buffer' = SourceBytes(n)
          /\ amount_read' = n
          /\ ptr' = 0
          /\ IF read_from_mmc
               THEN mmc_pos' = mmc_pos + n /\ UNCHANGED src_pos
               ELSE src_pos' = src_pos + n /\ UNCHANGED mmc_pos
          /\ pc' = "copy_write"
          /\ UNCHANGED <<status, errs, out>>
  /\ UNCHANGED <<str, rev, machine, optv, findv, data_fd, src_len, delivered, mountv,
                 mmc_fd, dev, total_written>>

\* A write loop without the test of errno.
write_retried_never(errno) == FALSE

\* A write loop that tries again after every failure.
write_retried_always(errno) == TRUE

\* if (errno == EINTR) continue; else err(EXIT_FAILURE, "write");
write_retried(errno) == errno = EINTR

\* One write(to_fd, ptr, amount_read) of the do-while, and the report that
\* follows the chunk once amount_read reaches 0.
CopyWrite ==
  /\ pc = "copy_write"
  /\ \/ \* amount_written < 0
        \E errno \in Errnos :
          IF write_retried(errno)
            THEN UNCHANGED <<pc, status, errs, out, delivered, dev, mmc_pos,
                             total_written, amount_read, ptr>>
            ELSE /\ pc' = "exited"
                 /\ status' = EXIT_FAILURE
                 /\ errs' = Append(errs, [msg |-> "write",
                                          list |-> <<errno>>])
                 /\ UNCHANGED <<out, delivered, dev, mmc_pos, total_written,
                                amount_read, ptr>>
     \/ \E n \in 0..amount_read :
          LET slice == written_bytes(buffer, ptr, n)
              data  == [i \in 1..n |-> DataByte(slice[i])]
              done  == amount_read - n = 0
              shown == IF done THEN Report(total_written + n) ELSE <<>>
          IN  /\ n <= Room
              /\ amount_read' = amount_read - n
              /\ ptr' = ptr + n
              /\ total_written' = total_written + n
              /\ delivered' = delivered \o slice
              /\ IF read_from_mmc
                   THEN /\ UNCHANGED <<dev, mmc_pos>>
                        /\ out' = IF data_fd = "stdout"
                                    THEN out \o data \o shown
                                    ELSE out \o shown
                   ELSE /\ dev' = [i \in 1..DevSize |->
                                     IF i > mmc_pos /\ i <= mmc_pos + n
                                       THEN slice[i - mmc_pos] ELSE dev[i]]
                        /\ mmc_pos' = mmc_pos + n
                        /\ out' = out \o shown
              /\ pc' = IF done THEN "copy_loop" ELSE "copy_write"
              /\ UNCHANGED <<status, errs>>
  /\ UNCHANGED <<str, rev, machine, optv, findv, data_fd, src_len, src_pos, mountv,
                 mmc_fd, buffer>>

\* ------------------------------------------------------------ specification
Next ==
  \/ GetoptD \/ GetoptS \/ GetoptO \/ GetoptFlag \/ GetoptV \/ GetoptUnknown
  \/ ArgsDone
  \/ FindDevice \/ Confirm
  \/ OpenData
  \/ UmountScan \/ Umount
  \/ OpenDevice
  \/ CopyStart \/ CopyRead \/ CopyWrite \/ CopyLoopExit

Spec == Init /\ [][Next]_vars

\* ------------------------------------------------- liveness specification
\* A stream the copy cannot exhaust: longer than the device and one buffer
\* together.
EndlessStream == DevSize + COPY_BUFFER_SIZE + 1

\* The machines of the liveness specification: /dev/sdc the only card,
\* nothing mounted, a data source of every length and an endless one.
LiveMachines ==
  {Machine(OnlySdc, <<>>, n) : n \in (0..MaxSrc) \cup {EndlessStream}}

LiveInit ==
  /\ str = <<>>
  /\ machine \in LiveMachines
  /\ Start

\* Every read returns, and a write does not for ever return zero bytes or
\* fail with an interrupted call: each step of the copy engine that can
\* change the state is eventually taken.
LiveSpec ==
  /\ LiveInit /\ [][Next]_vars
  /\ WF_vars(CopyStart) /\ WF_vars(CopyRead)
  /\ WF_vars(CopyWrite) /\ WF_vars(CopyLoopExit)

\* ------------------------------------------------ Size Parser specification
\* The arguments handed to parse_size: a number, after nothing, a blank or
\* a '+', followed by nothing, by a suffix of the table or by something
\* else; and arguments without a number.  The integers of the model end
\* below 2^31, so the suffixes of the G family follow 0 and 1 only.
SizeNumbers ==
  { [text |-> <<"0">>, value |-> 0],
    [text |-> <<"1">>, value |-> 1],
    [text |-> <<"7">>, value |-> 7],
    [text |-> <<"1", "2">>, value |-> 12],
    [text |-> <<"1", "0", "2", "4">>, value |-> 1024] }
SizeLeads == {<<>>, <<" ">>, <<"+">>}
TableSuffixes ==
  {suffix_multipliers[i].suffix : i \in 1..Len(suffix_multipliers)}
OtherRests ==
  { <<"x">>, <<"k">>, <<"K", "B">>, <<"k", "b">>, <<"B">>, <<"g">>,
    <<"m">>, <<"K", "i", "b">>, <<"K", " ">>, <<" ", "K">>,
    <<"G", "i", "B", "s">> }
SizeRests == {<<>>} \cup TableSuffixes \cup OtherRests
GigaSuffixes == {<<"G", "B">>, <<"G">>, <<"G", "i", "B">>}
NoNumberArgs ==
  { <<>>, <<"a", "b", "c">>, <<"K">>, <<"x", "7">>, <<" ">>, <<"+">>,
    <<"M", "i", "B">> }
ParserArgs ==
  {lead \o num.text \o rest :
     lead \in SizeLeads,
     num \in {n \in SizeNumbers : n.value <= 1},
     rest \in SizeRests}
  \cup
  {lead \o num.text \o rest :
     lead \in SizeLeads,
     num \in SizeNumbers,
     rest \in SizeRests \ GigaSuffixes}
  \cup NoNumberArgs

ParserInit ==
  /\ str \in ParserArgs
  /\ machine = Machine(OnlySdc, <<>>, 0)
  /\ Start

\* case 's': total_to_copy = parse_size(optarg), optarg being str.
ParseSize ==
  /\ pc = "getopt"
  /\ LET r == parse_size(str)
     IN  IF r.ok
           THEN /\ total_to_copy' = r.value
                /\ pc' = "parsed"
                /\ UNCHANGED <<status, errs>>
           ELSE /\ Exit(EXIT_FAILURE, "parse_size")
                /\ UNCHANGED total_to_copy
  /\ UNCHANGED <<str, rev, machine, mmc_device, data_pathname, seek_offset,
                 accept_found_device, read_from_mmc, numeric_progress, quiet,
                 findv, datav, mountv, devv, copyv, out>>

ParserNext == ParseSize

ParserSpec == ParserInit /\ [][ParserNext]_vars

\* ------------------------------------------------------------------ claims
\* The copy has run to its end and main has exited with success.
CopyCompleted ==
  pc = "exited" /\ status = EXIT_SUCCESS /\ mmc_fd # "none"

\* Bytes the source descriptor can deliver from where the copy starts.
SourceLength ==
  IF read_from_mmc THEN DevSize - seek_offset ELSE src_len

\* The first n bytes the source descriptor delivers.
FirstSourceBytes(n) ==
  IF read_from_mmc THEN SubSeq(InitialDevice, seek_offset + 1, seek_offset + n)
  ELSE [i \in 1..n |-> SrcByte(i - 1)]

\* The device after n source bytes were laid down at offset o, all else
\* as it was.
DeviceImage(o, n) ==
  [i \in 1..DevSize |->
     IF i > o /\ i <= o + n THEN SrcByte(i - o - 1) ELSE DevByte(i - 1)]

\* C1: whenever the total is nonzero, the cumulative number of bytes written
\* to the destination never exceeds the total, at any point of the copy.
C1_WrittenNeverExceedsTotal ==
  total_to_copy # 0 => total_written <= total_to_copy

\* C2: for a nonzero total N and a source able to supply at least N bytes,
\* a finished copy has delivered exactly the first N bytes of the source to
\* the destination.
C2_ExactlyTotalDelivered ==
  (CopyCompleted /\ total_to_copy # 0 /\ SourceLength >= total_to_copy)
    => delivered = FirstSourceBytes(total_to_copy)

\* C3: in write mode with seek offset O, a finished copy of an N-byte source
\* (total = N, or total = 0) leaves the device with bytes [O, O+N) equal to
\* the source bytes in order and every other device byte unchanged.
C3_DeviceImageAfterWrite ==
  (CopyCompleted /\ ~read_from_mmc
     /\ (total_to_copy = src_len \/ total_to_copy = 0))
    => dev = DeviceImage(seek_offset, src_len)

\* C3 witness: a finished write of at least two bytes at a nonzero offset.
C3_Witness ==
  /\ CopyCompleted /\ ~read_from_mmc
  /\ total_to_copy = src_len /\ src_len >= 2 /\ seek_offset >= 1
  /\ dev = DeviceImage(seek_offset, src_len)

\* s starts with p, character by character.
StartsWith(s, p) ==
  Len(p) <= Len(s) /\ \A i \in 1..Len(p) : s[i] = p[i]

\* The mount points of the records of table whose device path starts with
\* device, in table order.
MatchingRecord(r) == StartsWith(r.devname, mmc_device)
MatchingPoints ==
  LET sel == SelectSeq(machine.mounts, MatchingRecord)
  IN  [i \in 1..Len(sel) |-> sel[i].mountpoint]

HasErr(text) == \E i \in 1..Len(errs) : errs[i].msg = text
FailedExit == pc = "exited" /\ status # EXIT_SUCCESS /\ status # NoStatus

\* Nothing was done to the device or with its data.
DeviceUntouched ==
  /\ mmc_fd = "none" /\ dev = InitialDevice /\ delivered = <<>>
  /\ buffer = <<>> /\ mmc_pos = 0

\* No umount call was issued.
NothingUnmounted == umounts = <<>>

\* C4: the device is opened for the copy, and its data read or written,
\* only after the mount table was scanned and every matching mount point
\* was unmounted with success; when an unmount call fails or more than 64
\* records match, the process exits with non-zero status, attempts no
\* further unmount and never opens the device.
C4_UnmountBeforeDeviceOpen ==
  /\ ~DeviceUntouched =>
       /\ mmc_fd # "none" /\ scanned
       /\ umounts = MatchingPoints
       /\ ~HasErr("umount") /\ ~HasErr("device mounted too many times")
  /\ HasErr("umount") =>
       LET m == MatchingPoints
           k == Len(umounts)
       IN  /\ FailedExit /\ DeviceUntouched
           /\ k >= 1 /\ k <= Len(m)
           /\ umounts = SubSeq(m, 1, k)
           /\ errs[Len(errs)].list = <<m[k]>>
  /\ scanned =>
       (Len(MatchingPoints) > TodoCapacity =>
          /\ FailedExit /\ DeviceUntouched /\ NothingUnmounted
          /\ HasErr("device mounted too many times"))

\* C4 witness: the device is open and data was copied after two mount
\* points were unmounted.
C4_Witness ==
  /\ mmc_fd # "none" /\ delivered # <<>>
  /\ Len(umounts) >= 2 /\ umounts = MatchingPoints

\* C5: with an auto-detected device, no -y and a file as data path, the
\* prompt is printed and one character is read from stdin; any answer but
\* 'y' or 'Y' (end of input included) ends the process with non-zero status
\* before any unmount, before the device is opened and before the data file
\* is opened; an auto-detected device is never written without -y or a
\* 'y'/'Y' answer.
C5_ConfirmationGuardsDevice ==
  /\ (found /\ ~accept_found_device /\ data_pathname # Dash
        /\ pc # "confirm") =>
       /\ HasErr("prompt")
       /\ response \in Responses
       /\ stdin_used = IF response = "EOF" THEN 0 ELSE 1
       /\ response \notin {"y", "Y"} =>
            /\ FailedExit /\ NothingUnmounted /\ ~scanned
            /\ DeviceUntouched /\ data_fd = "none"
  /\ (found /\ dev # InitialDevice) =>
       (accept_found_device \/ response \in {"y", "Y"})

\* C5 witness: the prompt met the end of input and the process has exited.
C5_Witness ==
  /\ found /\ ~accept_found_device /\ data_pathname # Dash
  /\ response = "EOF" /\ FailedExit /\ HasErr("aborted")

\* The candidates that pass the Device Prober, in probe order.
PassesProber(path) == Prober(path)
Passing == SelectSeq(Candidates, PassesProber)

\* C6: auto-detection resolves by the number of candidates that pass the
\* prober: none, main exits with non-zero status; one, it is the device; two
\* or more, the process lists them all and exits with non-zero status, with
\* or without -y, selecting none, before any unmount, device open or write.
C6_DetectionPolicy ==
  probed # <<>> =>
    LET passing == Passing
    IN  /\ Len(passing) = 0 =>
             FailedExit /\ mmc_device = NoDevice /\ DeviceUntouched
        /\ Len(passing) = 1 => found /\ mmc_device = passing[1]
        /\ Len(passing) >= 2 =>
             /\ FailedExit
             /\ errs = <<[msg |-> "too many possible memory cards found",
                          list |-> passing]>>
             /\ mmc_device = NoDevice /\ ~found
             /\ NothingUnmounted /\ ~scanned /\ DeviceUntouched

\* C6 witness: two candidates passed while -y was given.
C6_Witness ==
  /\ probed # <<>> /\ Len(Passing) >= 2 /\ accept_found_device
  /\ FailedExit

\* The Mount Unmounter has returned to main.
UnmounterReturned ==
  pc \in {"open_dev", "copy", "copy_loop", "copy_write"}
    \/ mmc_fd # "none" \/ HasErr("open device")

\* C7: the unmount calls are issued only after the table was scanned, only
\* for mount points of records whose device path starts with the target,
\* one per matching record in table order; when the unmounter returns it
\* has called umount for exactly those mount points.
C7_UnmountsExactlyMatching ==
  /\ ~scanned => umounts = <<>>
  /\ scanned =>
       LET m == MatchingPoints
       IN  /\ Len(umounts) <= Len(m)
           /\ umounts = SubSeq(m, 1, Len(umounts))
           /\ UnmounterReturned => umounts = m

\* C7 witness: /dev/sdc1 on /mnt/a and /dev/sdd1 on /mnt/b, target /dev/sdc:
\* only /mnt/a was unmounted.
C7_Witness ==
  /\ machine.mounts = <<MountRec(sdc \o <<"1">>, Mnt(<<"a">>)),
                        MountRec(DevSd("d") \o <<"1">>, Mnt(<<"b">>))>>
  /\ mmc_device = sdc
  /\ UnmounterReturned
  /\ umounts = <<Mnt(<<"a">>)>>

\* C8: when quiet is in effect nothing of the progress display reaches
\* stdout: no report before, during or after the loop and no trailing
\* linefeed (the only items on stdout are the data bytes of a read to
\* stdout).
C8_QuietPrintsNothing ==
  quiet => \A i \in 1..Len(out) : out[i].k = "data"

\* Both -n and -q were given (quiet is otherwise set only together with
\* stdout becoming the data descriptor).
BothFlagsPassed == numeric_progress /\ quiet /\ data_fd # "stdout"

\* Nothing was probed, asked, unmounted or opened.
NoInputOutput ==
  /\ probed = <<>> /\ ~HasErr("prompt") /\ stdin_used = 0
  /\ data_fd = "none"
  /\ ~scanned /\ NothingUnmounted
  /\ DeviceUntouched

\* C9 as stated: whenever both -n and -q are passed, whatever the other
\* flags, the process exits with non-zero status before any device is
\* probed, unmounted or opened and before the data file is opened.
C9_ConflictAlwaysFails ==
  BothFlagsPassed =>
    /\ pc \in {"getopt", "exited"}
    /\ NoInputOutput
    /\ pc = "exited" => status # EXIT_SUCCESS

\* C9 amended: whenever both -n and -q are passed the process never gets
\* past the argument checks and does no input or output on devices or data;
\* it exits with non-zero status (the -n/-q error, or the usage or size
\* error of another argument), except that a -v reached by the option loop
\* prints the version and exits with status 0.
C9_ConflictFailsUnlessVersion ==
  BothFlagsPassed =>
    /\ pc \in {"getopt", "exited"}
    /\ NoInputOutput
    /\ pc = "exited" =>
         /\ Len(errs) = 1
         /\ errs[1].msg \in {"pick either -n or -q", "usage", "parse_size",
                             "version"}
         /\ status = EXIT_SUCCESS <=> errs[1].msg = "version"
         /\ errs[1].msg = "version" => rev = "part_001"

\* C9 witness: the process has exited on the -n/-q error.
C9_Witness ==
  /\ BothFlagsPassed /\ FailedExit
  /\ errs = <<Msg("pick either -n or -q")>>

\* The option loop has ended by itself (no -v, no unknown option and no
\* malformed size ended the process inside it).
OptionsParsed ==
  /\ pc # "getopt"
  /\ ~HasErr("version") /\ ~HasErr("usage") /\ ~HasErr("parse_size")

\* C10: in read mode with no size (or a size of 0) the process exits with
\* non-zero status before any candidate device is probed, before the
\* prompt, before the destination file is created, before any unmount and
\* before the device is opened.
C10_ReadNeedsSize ==
  (OptionsParsed /\ read_from_mmc /\ total_to_copy = 0) =>
    /\ FailedExit
    /\ NoInputOutput

\* C10 witness: read mode without a size has exited on the size error.
C10_Witness ==
  /\ read_from_mmc /\ total_to_copy = 0 /\ ~quiet
  /\ FailedExit /\ errs = <<Msg("specify the amount to copy")>>

\* C11: with an auto-detected device, no -y and stdin/stdout as data path,
\* the process exits with non-zero status without printing the prompt,
\* without consuming a byte of stdin, without any unmount and without
\* opening the device.
C11_StreamNeedsYes ==
  (found /\ ~accept_found_device /\ data_pathname = Dash
     /\ pc # "confirm") =>
    /\ FailedExit /\ HasErr("cannot confirm")
    /\ ~HasErr("prompt") /\ response = "none" /\ stdin_used = 0
    /\ data_fd = "none"
    /\ ~scanned /\ NothingUnmounted /\ DeviceUntouched

\* C11 witness: a card was found, the data path is "-" and the process has
\* exited on the refusal.
C11_Witness ==
  /\ found /\ ~accept_found_device /\ data_pathname = Dash
  /\ FailedExit /\ errs = <<Msg("cannot confirm")>>

\* The ceiling of the revision that runs.
CeilingOfRevision ==
  IF rev = "mmccopy_c" THEN CardCeiling_old ELSE CardCeiling

\* What the prober is said to answer for a device: a plausible card exactly
\* when the path opens, its size can be determined and the size does not
\* exceed the ceiling.
SaidPlausible(d) ==
  d.opens /\ d.seeks /\ ~BigGT(d.len, CeilingOfRevision)

\* C12: the Device Prober answers not-a-card when the path cannot be
\* opened, when its size cannot be determined or when the size exceeds the
\* ceiling, and plausible-card for every openable path whose size is within
\* the ceiling, a size equal to the ceiling included.
C12_ProberVerdict ==
  \A i \in 1..Len(probed) :
    (\E j \in 1..Len(possible) : possible[j] = probed[i])
      <=> SaidPlausible(DeviceAt(probed[i]))

\* The progress reports among the items of stdout, in order.
IsReport(item) == item.k \in {"numeric", "percent", "size"}
Reports(o) == SelectSeq(o, IsReport)

\* The step adds exactly one report, which carries w and the total.
OneMoreReport(w) ==
  LET a == Reports(out)
      b == Reports(out')
  IN  /\ Len(b) = Len(a) + 1
      /\ SubSeq(b, 1, Len(a)) = a
      /\ b[Len(b)].written = w
      /\ b[Len(b)].total = total_to_copy
NoMoreReport == Reports(out') = Reports(out)

\* The steps of the copy engine at which a report is due.
StartsCopy == pc = "copy" /\ pc' = "copy_loop"
CompletesChunk == pc = "copy_write" /\ pc' = "copy_loop"
EndsLoop == pc = "copy_loop" /\ pc' = "exited" /\ status' = EXIT_SUCCESS
ReportDue == StartsCopy \/ CompletesChunk \/ EndsLoop

\* C13 as stated: unless quiet, one report with written = 0 before the
\* first read, one after each chunk completely written, one final report
\* after the loop has ended, and no other; each carries the cumulative
\* bytes written and the total.
C13_ReportsWithFinal ==
  [][~quiet =>
       /\ StartsCopy => OneMoreReport(0)
       /\ CompletesChunk => OneMoreReport(total_written')
       /\ EndsLoop => OneMoreReport(total_written)
       /\ ~ReportDue => NoMoreReport]_vars

\* C13 amended: unless quiet, one report with written = 0 before the first
\* read and one after each chunk completely written, each carrying the
\* cumulative bytes written and the total; the report after the end of the
\* loop is made by src/mmccopy.c only, the latest revision makes none.
C13_ReportsPerRevision ==
  [][~quiet =>
       /\ StartsCopy => OneMoreReport(0)
       /\ CompletesChunk => OneMoreReport(total_written')
       /\ EndsLoop => IF rev = "mmccopy_c" THEN OneMoreReport(total_written)
                      ELSE NoMoreReport
       /\ ~ReportDue => NoMoreReport]_vars

\* C13 witness: the latest revision has finished a copy of two chunks with
\* three reports: 0, the first chunk, both chunks.
C13_Witness ==
  /\ rev = "part_001" /\ CopyCompleted /\ ~quiet
  /\ Len(Reports(out)) = 3
  /\ Reports(out)[1].written = 0
  /\ Reports(out)[3].written = total_written
  /\ total_written > Reports(out)[2].written

\* C14: the bytes-written values of successive progress reports never
\* decrease, and once the copy has finished the last report carries exactly
\* the number of bytes written to the destination, an empty source and a
\* source that ends before a known total included.
C14_ReportsMonotonic ==
  LET r == Reports(out)
  IN  /\ \A i, j \in 1..Len(r) : i <= j => r[i].written <= r[j].written
      /\ (CopyCompleted /\ ~quiet) =>
            /\ Len(r) >= 1
            /\ r[Len(r)].written = Len(delivered)
            /\ r[Len(r)].written = total_written

\* C14 witness: the source ended before the known total was reached, after
\* at least two bytes, and the last report carries what was written.
C14_Witness ==
  /\ CopyCompleted /\ ~quiet
  /\ total_to_copy > Len(delivered) /\ Len(delivered) >= 2
  /\ Reports(out)[Len(Reports(out))].written = Len(delivered)

\* C15: with total = 0 a copy that ends has read the source to its end and
\* delivered every byte of it, in order; it ends when a read returns zero
\* bytes, with nothing read left unwritten.
C15_UnknownTotalCopiesAll ==
  (CopyCompleted /\ total_to_copy = 0) =>
    /\ Available = 0
    /\ amount_read = 0
    /\ delivered = FirstSourceBytes(SourceLength)

\* C15 witness: a source longer than the buffer was copied whole with
\* total = 0.
C15_Witness ==
  /\ CopyCompleted /\ total_to_copy = 0
  /\ SourceLength > COPY_BUFFER_SIZE
  /\ delivered = FirstSourceBytes(SourceLength)

\* The multiplier each suffix is said to stand for.
SaidMultiplier(suffix) ==
  CASE suffix = <<"b">> -> 512
    [] suffix = <<"k", "B">> -> 1000
    [] suffix = <<"K">> -> 1024
    [] suffix = <<"K", "i", "B">> -> 1024
    [] suffix = <<"M", "B">> -> 1000 * 1000
    [] suffix = <<"M">> -> 1024 * 1024
    [] suffix = <<"M", "i", "B">> -> 1024 * 1024
    [] suffix = <<"G", "B">> -> 1000 * 1000 * 1000
    [] suffix = <<"G">> -> 1024 * 1024 * 1024
    [] suffix = <<"G", "i", "B">> -> 1024 * 1024 * 1024
    [] OTHER -> 0

ParseReturned(v) == pc = "parsed" /\ total_to_copy = v
ParseFailed == FailedExit /\ errs = <<Msg("parse_size")>>

\* C16: the Size Parser returns value x multiplier for a decimal number
\* followed by a suffix of the table, matched exactly and with its case,
\* returns the value itself when nothing follows the number, and fails
\* with a parse error when there is no number or when what follows is not
\* in the table.
C16_ParserResult ==
  pc # "getopt" =>
    /\ \A lead \in SizeLeads, num \in SizeNumbers, rest \in SizeRests :
         str = lead \o num.text \o rest =>
           IF rest = <<>> THEN ParseReturned(num.value)
           ELSE IF SaidMultiplier(rest) # 0
             THEN ParseReturned(num.value * SaidMultiplier(rest))
           ELSE ParseFailed
    /\ str \in NoNumberArgs => ParseFailed

\* C16 witness: "7KiB" was parsed to 7168.
C16_Witness ==
  /\ str = <<"7", "K", "i", "B">>
  /\ ParseReturned(7 * 1024)

\* C17: a read from the source that fails with an interrupted system call
\* is retried and never ends the process; any other read failure ends it
\* with non-zero status.
C17_ReadInterruptRetried ==
  \A i \in 1..Len(errs) :
    errs[i].msg = "read" =>
      /\ errs[i].list # <<EINTR>>
      /\ FailedExit

\* Bytes read from the source since the copy began.
Consumed == IF read_from_mmc THEN mmc_pos - seek_offset ELSE src_pos

\* The part of the chunk in the buffer that is not written yet.
Unwritten == SubSeq(buffer, ptr + 1, ptr + amount_read)

\* C18: within a chunk the write cursor and the remaining length always
\* cover the unwritten rest of what was read; the bytes delivered followed
\* by that rest are the bytes read from the source, in order; the
\* cumulative count is the number of bytes delivered; between chunks
\* nothing is left unwritten; an interrupted write never ends the process,
\* any other write failure ends it with non-zero status.
C18_ChunkFlushedWhole ==
  /\ pc \in {"copy_loop", "copy_write"} =>
       /\ total_written = Len(delivered)
       /\ ptr + amount_read = Len(buffer)
       /\ delivered \o Unwritten = FirstSourceBytes(Consumed)
       /\ pc = "copy_loop" => amount_read = 0
       /\ pc = "copy_write" => amount_read > 0
  /\ CopyCompleted =>
       /\ total_written = Len(delivered)
       /\ delivered = FirstSourceBytes(Consumed)
  /\ \A i \in 1..Len(errs) :
       errs[i].msg = "write" =>
         /\ errs[i].list # <<EINTR>>
         /\ FailedExit

\* C18 witness: in the second chunk, of two bytes, a partial write has taken
\* one byte: the cursor is one byte on and one byte remains.
C18_Witness ==
  /\ pc = "copy_write" /\ Len(buffer) = 2
  /\ ptr = 1 /\ amount_read = 1
  /\ Len(delivered) = 3 /\ total_written = 3

\* /dev/sdb ... /dev/sdy, then /dev/mmcblk0 ... /dev/mmcblk15.
SaidLetters ==
  <<"b", "c", "d", "e", "f", "g", "h", "i", "j", "k", "l", "m",
    "n", "o", "p", "q", "r", "s", "t", "u", "v", "w", "x", "y">>
SaidIndices ==
  << <<"0">>, <<"1">>, <<"2">>, <<"3">>, <<"4">>, <<"5">>, <<"6">>,
     <<"7">>, <<"8">>, <<"9">>, <<"1", "0">>, <<"1", "1">>, <<"1", "2">>,
     <<"1", "3">>, <<"1", "4">>, <<"1", "5">> >>
SaidCandidates ==
  [i \in 1..Len(SaidLetters) |->
     <<"/", "d", "e", "v", "/", "s", "d", SaidLetters[i]>>]
  \o [i \in 1..Len(SaidIndices) |->
        <<"/", "d", "e", "v", "/", "m", "m", "c", "b", "l", "k">>
          \o SaidIndices[i]]

\* C19: auto-detection probes /dev/sdb to /dev/sdy and then /dev/mmcblk0 to
\* /dev/mmcblk15, each once and in that order, never /dev/sda or /dev/sdz,
\* and accumulates the candidates that pass the prober in probe order.
C19_ProbeOrder ==
  probed # <<>> =>
    /\ probed = SaidCandidates
    /\ \A i \in 1..Len(probed) : probed[i] # sda /\ probed[i] # sdz
    /\ possible = SelectSeq(SaidCandidates, PassesProber)

\* C19 witness: /dev/sda and /dev/sdz are cards like /dev/sdc and
\* /dev/mmcblk1; the finder has kept the last two, in that order.
C19_Witness ==
  /\ probed # <<>>
  /\ machine.sizes[sda] = Card /\ machine.sizes[sdz] = Card
  /\ possible = <<sdc, mmcblk1>>

\* s is a non-empty run of decimal digits.
AllDigits(s) == s # <<>> /\ \A i \in 1..Len(s) : IsDigit(s[i])

\* devname is the target device itself or one of its partitions: the
\* target's path followed by a partition number, after a 'p' for the
\* mmcblk family.
OwnDevice(devname, target) ==
  /\ StartsWith(devname, target)
  /\ LET rest == SubSeq(devname, Len(target) + 1, Len(devname))
     IN  \/ rest = <<>>
         \/ AllDigits(rest) /\ ~IsDigit(target[Len(target)])
         \/ Head(rest) = "p" /\ AllDigits(Tail(rest))

\* C20: every mount point unmounted is that of a record of the target
\* device or of one of its partitions; a device whose path merely starts
\* with the target's path (/dev/mmcblk10p1 for /dev/mmcblk1, /dev/sdba1
\* for /dev/sdb) is left mounted.
C20_OnlyOwnMountsUnmounted ==
  \A i \in 1..Len(umounts) :
    \E k \in 1..Len(machine.mounts) :
      /\ machine.mounts[k].mountpoint = umounts[i]
      /\ OwnDevice(machine.mounts[k].devname, mmc_device)

\* The items of stdout that carry the bytes of s.
AsData(s) == [i \in 1..Len(s) |-> DataByte(s[i])]

\* C21: in read mode with stdout as the data path, stdout holds exactly the
\* bytes copied from the device, in order, and nothing else: no progress
\* report and no linefeed, whatever -q and -n say.
C21_StdoutIsDeviceData ==
  (read_from_mmc /\ data_fd = "stdout") =>
    /\ out = AsData(delivered)
    /\ delivered = SubSeq(InitialDevice, seek_offset + 1,
                          seek_offset + Len(delivered))

\* C21 witness: a read to stdout with -n and without -q has finished after
\* copying at least two bytes.
C21_Witness ==
  /\ read_from_mmc /\ data_fd = "stdout" /\ numeric_progress
  /\ CopyCompleted /\ Len(delivered) >= 2
  /\ out = AsData(delivered)

\* The source reaches its end by itself.
SourceEnds == read_from_mmc \/ src_len # EndlessStream

\* C22: once the copy loop has started it eventually ends, by completion or
\* by a fatal error, whenever the total is nonzero or the source reaches
\* its end, given that every read returns and that writes do not for ever
\* return zero bytes or an interrupted call.
C22_CopyLoopEnds ==
  (pc = "copy_loop" /\ (total_to_copy # 0 \/ SourceEnds))
    ~> (pc = "exited")

\* C22 witness: a copy from an endless stream with a nonzero total has
\* ended by completion.
C22_Witness ==
  /\ data_fd = "stdin" /\ src_len = EndlessStream
  /\ total_to_copy # 0 /\ CopyCompleted

\* C23: in read mode the device is opened read-only and never written: its
\* bytes stay as they were, every byte written goes to the data path, in
\* order from the start of the data path, and the bytes read are those of
\* the device from the seek offset on.
C23_ReadModeLeavesDevice ==
  read_from_mmc =>
    /\ mmc_fd \in {"none", "O_RDONLY"}
    /\ dev = InitialDevice
    /\ data_fd \in {"none", "file_w", "stdout"}
    /\ mmc_fd # "none" /\ ~HasErr("lseek") =>
         /\ mmc_pos = seek_offset + Len(delivered) + amount_read
         /\ delivered \o Unwritten =
              SubSeq(InitialDevice, seek_offset + 1, mmc_pos)

\* C23 witness: a read of at least two bytes from a nonzero offset into a
\* file has finished.
C23_Witness ==
  /\ read_from_mmc /\ CopyCompleted /\ data_fd = "file_w"
  /\ mmc_fd = "O_RDONLY" /\ seek_offset >= 1 /\ Len(delivered) >= 2
  /\ delivered = SubSeq(InitialDevice, seek_offset + 1,
                        seek_offset + Len(delivered))

\* The smaller of two numbers.
Smaller(a, b) == IF a < b THEN a ELSE b

\* C24: the total handed to the copy engine.  Opening a regular file as the
\* source of a write makes it the file size when the -s value is 0 (or -s
\* is omitted) and the smaller of the -s value and the file size otherwise;
\* with stdin as source, and in read mode, it stays the -s value (0 when
\* omitted); nothing changes it after the data path is opened.
C24_TotalHandedToCopy ==
  [][/\ (pc = "open_data" /\ data_fd' = "file_r") =>
          /\ ~read_from_mmc
          /\ total_to_copy' =
               IF total_to_copy = 0 THEN machine.src_len
               ELSE Smaller(total_to_copy, machine.src_len)
     /\ (pc = "open_data" /\ data_fd' \in {"stdin", "file_w", "stdout"}) =>
          total_to_copy' = total_to_copy
     /\ pc \notin {"getopt", "open_data"} =>
          total_to_copy' = total_to_copy]_vars

\* C24 witness: the copy engine runs with a total above every -s value,
\* the size of the file.
C24_Witness ==
  /\ data_fd = "file_r" /\ pc = "copy_loop"
  /\ total_to_copy > MaxSize /\ total_to_copy = machine.src_len

====
